---- MODULE Spec2Model ----
(***************************************************************************)
(* Fault lifecycle of the chaos-engineering scripts.                       *)
(*                                                                         *)
(* One process runs one script (prog).  The process owns the list of       *)
(* injected fault identifiers (fault_ids) or the single effect identifier  *)
(* (effect_id) and talks to the fault endpoint, whose collection of        *)
(* active faults is `active`.  The Python call stack is `stack`: the       *)
(* bottom frame is the script ("main") or the interpreter running the      *)
(* exit hooks ("atexit"); a signal handler and a _cleanup pass are frames  *)
(* pushed on top of it.  In Spec a termination signal is delivered while   *)
(* the script itself runs; ReentrantSpec also delivers it while a _cleanup *)
(* pass is executing (one such signal at a time).                          *)
(***************************************************************************)
EXTENDS Integers, Sequences, FiniteSets, TLC

\* ------------------------------------------------------------------ bounds
MaxFaults == 2      \* identifiers the endpoint issues to a ChaosTestBase script
MaxInjects == 3     \* injection requests of a ChaosTestBase script
MaxNested == 1      \* signals delivered while a _cleanup pass is executing
MaxForeign == 1     \* effects other clients have active at the endpoint
MaxRecovers == 2    \* calls of ServiceOutageChaos.recover
MaxTracked == 1     \* faults tracked by the script a pass of which is interrupted

\* ------------------------------------------------------- program constants
None == 0           \* Python None (falsy); issued identifiers are 1, 2, ...
TransportError == 0 \* outcome of a request that raised instead of answering

VARIABLES
    prog,        \* the script this process runs
    script,      \* the script's own data (inject_cascade's work list, the
                 \* calls run() has made and what it returned,
                 \* ServiceOutageChaos.fault_id and the recover calls made,
                 \* the regions' S3 objects and what the S3 scripts did
                 \* to them)
    stack,       \* call stack, top frame last
    fault_ids,   \* self.fault_ids
    effect_id,   \* self.effect_id
    active,      \* faults active at the endpoint
    issued,      \* identifiers issued by the endpoint so far
    returned,    \* identifiers returned by successful injections, in order
    deleted,     \* identifiers that were the target of a successful DELETE
    nDeletes,    \* DELETE requests issued so far, per identifier
    nInjects,    \* injection calls made so far
    lastInject,  \* the last injection call: its outcome and its result
    passes,      \* caller and request count of each finished _cleanup pass
    lastPass,    \* the record of the last finished _cleanup pass
    signalled,   \* a termination signal has been delivered
    nested,      \* signals delivered while a _cleanup pass was executing
    exit_code,   \* status the process exits with
    terminated   \* the process has exited

endpoint == <<active, issued, returned, deleted, nDeletes>>

injections == <<nInjects, lastInject>>

recoveries == <<passes, lastPass>>

process == <<prog, script, signalled, nested, exit_code, terminated>>

vars == <<stack, fault_ids, effect_id, endpoint, injections, recoveries,
          process>>

\* ----------------------------------------------------------------- helpers
Range(s) == {s[k] : k \in 1..Len(s)}

Frame(fn, pc) == [fn |-> fn, pc |-> pc, i |-> 0, cleaned |-> 0, reqs |-> <<>>]

Top == stack[Len(stack)]

Pop == SubSeq(stack, 1, Len(stack) - 1)

ReplaceTop(f) == [stack EXCEPT ![Len(stack)] = f]

InFrame(fn) == stack # <<>> /\ Top.fn = fn

Request(verb, id, status) == [verb |-> verb, id |-> id, status |-> status]

NoPass == [trigger |-> "none", ids |-> <<>>, reqs |-> <<>>, cleaned |-> 0,
           injects |-> 0]

\* second: the outcome of the second POST of a two-request injection
NoInject == [outcome |-> "none", result |-> FALSE, second |-> "none"]

\* what a DELETE can come back with: a status, or an exception
DeleteOutcomes == {200, 204, 404, TransportError}

\* what the bulk-clear POST can come back with
ClearOutcomes == {200, 500, TransportError}

\* what an injection POST can come back with: status 200 carrying an
\* identifier, status 200 with an empty list, status 200 with an entry that
\* has no "id", another status, an exception
InjectOutcomes == {"id", "empty", "noid", "status", "exception"}

\* the endpoint creates the fault and issues the next identifier exactly
\* when it answers with one
EndpointInject(o) ==
    IF o = "id"
    THEN /\ issued' = issued + 1
         /\ active' = active \cup {issued + 1}
         /\ returned' = Append(returned, issued + 1)
         /\ nDeletes' = Append(nDeletes, 0)
         /\ UNCHANGED deleted
    ELSE UNCHANGED endpoint

\* the endpoint removes the fault exactly when it answers 200 or 204
EndpointDelete(id, status) ==
    /\ active' = IF status \in {200, 204} THEN active \ {id} ELSE active
    /\ deleted' = IF status \in {200, 204} THEN deleted \cup {id} ELSE deleted
    /\ nDeletes' = [nDeletes EXCEPT ![id] = @ + 1]
    /\ UNCHANGED <<issued, returned>>

\* the endpoint's side of the DELETEs ids[1], ids[2], ... answered with
\* st[1], st[2], ...; a DELETE for None names no fault
EndpointDeleteAll(ids, st) ==
    LET ok == {ids[k] : k \in {n \in 1..Len(ids) : st[n] \in {200, 204}}} IN
    /\ active' = active \ ok
    /\ deleted' = deleted \cup (ok \ {None})
    /\ nDeletes' = [id \in 1..Len(nDeletes) |->
                       nDeletes[id] + Cardinality({k \in 1..Len(ids) :
                                                      ids[k] = id})]
    /\ UNCHANGED <<issued, returned>>

\* ------------------------------------------------------------ ChaosTestBase
\* the scripts whose test class derives from ChaosTestBase: one that calls
\* its injections itself, one that goes through run()
BaseProgs == {"base", "run"}

\* response.status_code in [200, 204]
DeleteOk_Only200(status) == status = 200

DeleteOk(status) == status \in {200, 204}

\* add_fault_id: track a fault id for cleanup
add_fault_id_Front(ids, fault_id) ==
    IF fault_id # None THEN <<fault_id>> \o ids ELSE ids

add_fault_id(ids, fault_id) ==
    IF fault_id # None THEN Append(ids, fault_id) ELSE ids

\* if cleaned < len(self.fault_ids)
NeedsClear_Never(cleaned, ids) == cleaned < 0

NeedsClear(cleaned, ids) == cleaned < Len(ids)

\* the script (a subclass's inject_chaos) posts a fault and hands the
\* identifier of the response, if any, to add_fault_id
InjectChaos ==
    /\ prog = "base"
    /\ InFrame("main")
    /\ nInjects < MaxInjects
    /\ \E o \in InjectOutcomes :
        /\ o = "id" => issued < MaxFaults
        /\ EndpointInject(o)
        /\ fault_ids' = CASE o = "id" -> add_fault_id(fault_ids, issued + 1)
                          [] o = "noid" -> add_fault_id(fault_ids, None)
                          [] OTHER -> fault_ids
        /\ nInjects' = nInjects + 1
        /\ lastInject' = [outcome |-> o, result |-> o = "id",
                         second |-> "none"]
    /\ UNCHANGED <<stack, effect_id, recoveries, process>>

\* SIGINT or SIGTERM arrives while the script runs: _signal_handler prints
\* and calls self._cleanup()
SignalHandler_ExitFirst ==
    /\ prog \in BaseProgs
    /\ InFrame("main")
    /\ signalled' = TRUE
    /\ exit_code' = 1
    /\ stack' = <<Frame("atexit", "start")>>
    /\ UNCHANGED <<fault_ids, effect_id, endpoint, injections, recoveries,
                   prog, nested, script, terminated>>

SignalHandler ==
    /\ prog \in BaseProgs
    /\ InFrame("main")
    /\ signalled' = TRUE
    /\ stack' = stack \o <<Frame("_signal_handler", "exit"),
                           Frame("_cleanup", "enter")>>
    /\ UNCHANGED <<fault_ids, effect_id, endpoint, injections, recoveries,
                   prog, nested, script, exit_code, terminated>>

\* _signal_handler after _cleanup returned: sys.exit(1).  SystemExit unwinds
\* the handler and the script; the interpreter goes on to its exit hooks
SignalExit ==
    /\ InFrame("_signal_handler")
    /\ exit_code' = 1
    /\ stack' = <<Frame("atexit", "start")>>
    /\ UNCHANGED <<fault_ids, effect_id, endpoint, injections, recoveries,
                   prog, nested, script, signalled, terminated>>

\* the script runs to its end: the interpreter goes on to its exit hooks
MainReturn ==
    /\ prog \in BaseProgs
    /\ InFrame("main")
    /\ prog = "run" => Top.pc = "returned"
    /\ exit_code' = 0
    /\ stack' = <<Frame("atexit", "start")>>
    /\ UNCHANGED <<fault_ids, effect_id, endpoint, injections, recoveries,
                   prog, nested, script, signalled, terminated>>

\* atexit.register(self._cleanup): the exit hook runs _cleanup
AtExit_NotRegistered ==
    /\ InFrame("atexit")
    /\ Top.pc = "start"
    /\ stack' = <<Frame("atexit", "done")>>
    /\ UNCHANGED <<fault_ids, effect_id, endpoint, injections, recoveries,
                   process>>

AtExit ==
    /\ InFrame("atexit")
    /\ Top.pc = "start"
    /\ stack' = <<Frame("atexit", "done"), Frame("_cleanup", "enter")>>
    /\ UNCHANGED <<fault_ids, effect_id, endpoint, injections, recoveries,
                   process>>

\* the exit hooks are done: the process exits
Terminate ==
    /\ InFrame("atexit")
    /\ Top.pc = "done"
    /\ terminated' = TRUE
    /\ stack' = <<>>
    /\ UNCHANGED <<fault_ids, effect_id, endpoint, injections, recoveries,
                   prog, nested, script, signalled, exit_code>>

\* a pass returns to its caller; the record keeps who called it, the list it
\* ran over, the requests it issued (in order) and what it counted
Return(reqs) ==
    /\ stack' = Pop
    /\ lastPass' = [trigger |-> stack[Len(stack) - 1].fn, ids |-> fault_ids,
                    reqs |-> reqs, cleaned |-> Top.cleaned,
                    injects |-> nInjects]
    /\ passes' = Append(passes, [trigger |-> stack[Len(stack) - 1].fn,
                                 requests |-> Len(reqs)])

\* _cleanup, entry: if not self.fault_ids: return
CleanupEnter_ClearsWhenEmpty ==
    /\ InFrame("_cleanup")
    /\ Top.pc = "enter"
    /\ IF fault_ids = <<>>
       THEN Return(<<Request("POST", None, 200)>>)
       ELSE /\ stack' = ReplaceTop([Top EXCEPT !.pc = "loop", !.i = 1])
            /\ UNCHANGED recoveries
    /\ UNCHANGED <<fault_ids, effect_id, endpoint, injections, process>>

CleanupEnter ==
    /\ InFrame("_cleanup")
    /\ Top.pc = "enter"
    /\ IF fault_ids = <<>>
       THEN Return(<<>>)
       ELSE /\ stack' = ReplaceTop([Top EXCEPT !.pc = "loop", !.i = 1])
            /\ UNCHANGED recoveries
    /\ UNCHANGED <<fault_ids, effect_id, endpoint, injections, process>>

\* _cleanup, one iteration of `for fault_id in self.fault_ids`
CleanupDelete_Propagates ==
    /\ InFrame("_cleanup")
    /\ Top.pc = "loop"
    /\ Top.i <= Len(fault_ids)
    /\ LET fault_id == fault_ids[Top.i] IN
       IF fault_id # None
       THEN \E status \in DeleteOutcomes :
            /\ stack' = IF status = TransportError
                        THEN <<Frame("atexit",
                                     IF stack[1].fn = "atexit" THEN "done"
                                                               ELSE "start")>>
                        ELSE ReplaceTop(
                 [Top EXCEPT !.i = @ + 1,
                             !.cleaned = IF DeleteOk(status) THEN @ + 1 ELSE @,
                             !.reqs = Append(@, Request("DELETE", fault_id,
                                                        status))])
            /\ EndpointDelete(fault_id, status)
       ELSE /\ stack' = ReplaceTop([Top EXCEPT !.i = @ + 1])
            /\ UNCHANGED endpoint
    /\ UNCHANGED <<fault_ids, effect_id, injections, recoveries, process>>

CleanupDelete ==
    /\ InFrame("_cleanup")
    /\ Top.pc = "loop"
    /\ Top.i <= Len(fault_ids)
    /\ LET fault_id == fault_ids[Top.i] IN
       IF fault_id # None
       THEN \E status \in DeleteOutcomes :
            /\ stack' = ReplaceTop(
                 [Top EXCEPT !.i = @ + 1,
                             !.cleaned = IF DeleteOk(status) THEN @ + 1 ELSE @,
                             !.reqs = Append(@, Request("DELETE", fault_id,
                                                        status))])
            /\ EndpointDelete(fault_id, status)
       ELSE /\ stack' = ReplaceTop([Top EXCEPT !.i = @ + 1])
            /\ UNCHANGED endpoint
    /\ UNCHANGED <<fault_ids, effect_id, injections, recoveries, process>>

\* _cleanup after the loop: clear everything if a deletion was not counted,
\* then return
CleanupFallback_NoClear ==
    /\ InFrame("_cleanup")
    /\ Top.pc = "loop"
    /\ Top.i > Len(fault_ids)
    /\ Return(Top.reqs)
    /\ UNCHANGED <<fault_ids, effect_id, endpoint, injections, process>>

CleanupFallback ==
    /\ InFrame("_cleanup")
    /\ Top.pc = "loop"
    /\ Top.i > Len(fault_ids)
    /\ IF NeedsClear(Top.cleaned, fault_ids)
       THEN \E status \in ClearOutcomes :
            /\ Return(Append(Top.reqs, Request("POST", None, status)))
            /\ active' = IF status = 200 THEN {} ELSE active
       ELSE /\ Return(Top.reqs)
            /\ UNCHANGED active
    /\ UNCHANGED <<fault_ids, effect_id, issued, returned, deleted, nDeletes,
                   injections, process>>

\* --------------------------------------------------------- ChaosTestBase.run
\* run, after inject_chaos: `if not self.inject_chaos(): return False`
run_after_inject_Always(result) == "test_impact"

run_after_inject(result) == IF result THEN "test_impact" ELSE "returned"

\* run calls self.inject_chaos(); the subclass posts a fault, hands the
\* identifier to add_fault_id and returns whether it got one
RunInjectChaos ==
    /\ prog = "run"
    /\ InFrame("main")
    /\ Top.pc = "inject_chaos"
    /\ \E o \in InjectOutcomes :
        /\ EndpointInject(o)
        /\ fault_ids' = CASE o = "id" -> add_fault_id(fault_ids, issued + 1)
                          [] o = "noid" -> add_fault_id(fault_ids, None)
                          [] OTHER -> fault_ids
        /\ nInjects' = nInjects + 1
        /\ lastInject' = [outcome |-> o, result |-> o = "id",
                          second |-> "none"]
        /\ stack' = ReplaceTop([Top EXCEPT !.pc = run_after_inject(o = "id")])
        /\ script' = [script EXCEPT
                        !.calls = Append(@, "inject_chaos"),
                        !.result = IF run_after_inject(o = "id") = "returned"
                                   THEN "False" ELSE @]
    /\ UNCHANGED <<effect_id, recoveries, prog, nested, signalled, exit_code,
                   terminated>>

\* run calls self.test_impact()
RunTestImpact ==
    /\ prog = "run"
    /\ InFrame("main")
    /\ Top.pc = "test_impact"
    /\ stack' = ReplaceTop([Top EXCEPT !.pc = "input"])
    /\ script' = [script EXCEPT !.calls = Append(@, "test_impact")]
    /\ UNCHANGED <<fault_ids, effect_id, endpoint, injections, recoveries,
                   prog, nested, signalled, exit_code, terminated>>

\* run waits in input("Press Enter to recover..."); at end of input that
\* raises EOFError, which leaves run and the script
RunInput ==
    /\ prog = "run"
    /\ InFrame("main")
    /\ Top.pc = "input"
    /\ \E eof \in BOOLEAN :
        IF eof
        THEN /\ stack' = <<Frame("atexit", "start")>>
             /\ exit_code' = 1
        ELSE /\ stack' = ReplaceTop([Top EXCEPT !.pc = "recover"])
             /\ UNCHANGED exit_code
    /\ UNCHANGED <<fault_ids, effect_id, endpoint, injections, recoveries,
                   prog, nested, script, signalled, terminated>>

\* run calls self.recover() and returns True
RunRecover ==
    /\ prog = "run"
    /\ InFrame("main")
    /\ Top.pc = "recover"
    /\ stack' = ReplaceTop([Top EXCEPT !.pc = "returned"])
    /\ script' = [script EXCEPT !.calls = Append(@, "recover"),
                                !.result = "True"]
    /\ UNCHANGED <<fault_ids, effect_id, endpoint, injections, recoveries,
                   prog, nested, signalled, exit_code, terminated>>

\* ------------------------------------------------------ CascadeFailureChaos
\* self.service_dependencies.get(service, [])
service_dependencies(service) ==
    CASE service = "s3" -> <<"lambda", "cloudfront">>
      [] service = "dynamodb" -> <<"lambda", "apigateway">>
      [] service = "lambda" -> <<"sqs", "sns">>
      [] service = "rds" -> <<"lambda", "ecs">>
      [] service = "sqs" -> <<"lambda">>
      [] service = "apigateway" -> <<"lambda", "dynamodb">>
      [] OTHER -> <<>>

\* second_level_deps: the dependencies of the dependencies, as a set
second_level_deps(dependencies) ==
    UNION {Range(service_dependencies(dep)) : dep \in Range(dependencies)}

\* the services the script is started with (sys.argv[1])
InitialServices == {"s3", "sqs", "sns"}

\* _inject_service_fault: what it leaves in self.fault_ids
inject_service_fault_ids(ids, o, id) ==
    CASE o = "id" -> Append(ids, id)
      [] o = "noid" -> Append(ids, None)
      [] OTHER -> ids

\* _inject_service_fault: what it returns
inject_service_fault_result(o) == o \in {"id", "empty", "noid"}

\* _inject_service_fault: one POST, the identifier of the response appended
inject_service_fault(o) ==
    /\ EndpointInject(o)
    /\ fault_ids' = inject_service_fault_ids(fault_ids, o, issued + 1)
    /\ nInjects' = nInjects + 1
    /\ lastInject' = [outcome |-> o, result |-> inject_service_fault_result(o),
                     second |-> "none"]

\* inject_cascade, phase 1: the initial service; give up if that fails
InjectPhase1 ==
    /\ prog = "cascade"
    /\ InFrame("main")
    /\ Top.pc = "phase1"
    /\ \E o \in InjectOutcomes :
        /\ inject_service_fault(o)
        /\ LET dependencies == service_dependencies(script.initial_service) IN
           IF ~inject_service_fault_result(o)
           THEN /\ stack' = ReplaceTop([Top EXCEPT !.pc = "failed"])
                /\ UNCHANGED script
           ELSE /\ stack' = ReplaceTop([Top EXCEPT !.pc =
                     IF dependencies = <<>> THEN "injected" ELSE "phase2"])
                /\ script' = [script EXCEPT !.todo = dependencies]
    /\ UNCHANGED <<effect_id, recoveries, prog, nested, signalled, exit_code,
                   terminated>>

\* inject_cascade, phase 2: each direct dependency, result ignored
InjectPhase2_AbortsOnFailure ==
    /\ prog = "cascade"
    /\ InFrame("main")
    /\ Top.pc = "phase2"
    /\ \E o \in InjectOutcomes :
        /\ inject_service_fault(o)
        /\ LET dependencies == service_dependencies(script.initial_service)
               rest == Tail(script.todo) IN
           IF ~inject_service_fault_result(o)
           THEN /\ stack' = ReplaceTop([Top EXCEPT !.pc = "failed"])
                /\ UNCHANGED script
           ELSE IF rest # <<>>
           THEN /\ script' = [script EXCEPT !.todo = rest]
                /\ UNCHANGED stack
           ELSE /\ script' = [script EXCEPT !.todo = rest,
                                !.todo3 = second_level_deps(dependencies)]
                /\ stack' = ReplaceTop([Top EXCEPT !.pc =
                     IF second_level_deps(dependencies) = {} THEN "injected"
                                                             ELSE "phase3"])
    /\ UNCHANGED <<effect_id, recoveries, prog, nested, signalled, exit_code,
                   terminated>>

InjectPhase2 ==
    /\ prog = "cascade"
    /\ InFrame("main")
    /\ Top.pc = "phase2"
    /\ \E o \in InjectOutcomes : inject_service_fault(o)
    /\ LET dependencies == service_dependencies(script.initial_service)
           rest == Tail(script.todo) IN
       IF rest # <<>>
       THEN /\ script' = [script EXCEPT !.todo = rest]
            /\ UNCHANGED stack
       ELSE /\ script' = [script EXCEPT !.todo = rest,
                            !.todo3 = second_level_deps(dependencies)]
            /\ stack' = ReplaceTop([Top EXCEPT !.pc =
                 IF second_level_deps(dependencies) = {} THEN "injected"
                                                         ELSE "phase3"])
    /\ UNCHANGED <<effect_id, recoveries, prog, nested, signalled, exit_code,
                   terminated>>

\* inject_cascade, phase 3: each second-level dependency, in the order the
\* set yields them, result ignored
InjectPhase3 ==
    /\ prog = "cascade"
    /\ InFrame("main")
    /\ Top.pc = "phase3"
    /\ \E o \in InjectOutcomes : inject_service_fault(o)
    /\ \E service \in script.todo3 :
        /\ script' = [script EXCEPT !.todo3 = @ \ {service}]
        /\ stack' = IF script.todo3 = {service}
                    THEN ReplaceTop([Top EXCEPT !.pc = "injected"])
                    ELSE stack
    /\ UNCHANGED <<effect_id, recoveries, prog, nested, signalled, exit_code,
                   terminated>>

\* _remove_fault: what it returns for a DELETE that came back with `status`
remove_fault(status) == status \in {200, 204}

\* self.fault_ids[-2:]
LastTwo_LastOne(ids) == SubSeq(ids, Len(ids), Len(ids))

LastTwo(ids) == SubSeq(ids, Len(ids) - 1, Len(ids))

\* self.fault_ids[:-2]
DropLastTwo(ids) == SubSeq(ids, 1, Len(ids) - 2)

\* simulate_recovery_sequence, phase 1: if more than two faults are tracked,
\* _remove_fault the last two and drop them from the list
RecoveryPhase1 ==
    /\ prog = "cascade"
    /\ InFrame("main")
    /\ Top.pc = "injected"
    /\ IF Len(fault_ids) > 2
       THEN \E st \in [1..2 -> DeleteOutcomes] :
            /\ EndpointDeleteAll(LastTwo(fault_ids), st)
            /\ fault_ids' = DropLastTwo(fault_ids)
       ELSE UNCHANGED <<endpoint, fault_ids>>
    /\ stack' = ReplaceTop([Top EXCEPT !.pc = "recovery2"])
    /\ UNCHANGED <<effect_id, injections, recoveries, process>>

\* simulate_recovery_sequence, phase 2: if more than one fault is tracked,
\* _remove_fault all but the first and keep the first
RecoveryPhase2 ==
    /\ prog = "cascade"
    /\ InFrame("main")
    /\ Top.pc = "recovery2"
    /\ IF Len(fault_ids) > 1
       THEN \E st \in [1..(Len(fault_ids) - 1) -> DeleteOutcomes] :
            /\ EndpointDeleteAll(Tail(fault_ids), st)
            /\ fault_ids' = SubSeq(fault_ids, 1, 1)
       ELSE UNCHANGED <<endpoint, fault_ids>>
    /\ stack' = ReplaceTop([Top EXCEPT !.pc = "recovery3"])
    /\ UNCHANGED <<effect_id, injections, recoveries, process>>

\* simulate_recovery_sequence, phase 3: _remove_fault the fault that is left
\* and empty the list
RecoveryPhase3 ==
    /\ prog = "cascade"
    /\ InFrame("main")
    /\ Top.pc = "recovery3"
    /\ IF fault_ids # <<>>
       THEN \E st \in [1..1 -> DeleteOutcomes] :
            /\ EndpointDeleteAll(SubSeq(fault_ids, 1, 1), st)
            /\ fault_ids' = <<>>
       ELSE UNCHANGED <<endpoint, fault_ids>>
    /\ stack' = ReplaceTop([Top EXCEPT !.pc = "cleanup"])
    /\ UNCHANGED <<effect_id, injections, recoveries, process>>

\* recover: _remove_fault every tracked fault, then self.fault_ids = []
CascadeRecover ==
    /\ prog = "cascade"
    /\ InFrame("main")
    /\ Top.pc = "cleanup"
    /\ \E st \in [1..Len(fault_ids) -> DeleteOutcomes] :
        EndpointDeleteAll(fault_ids, st)
    /\ fault_ids' = <<>>
    /\ stack' = ReplaceTop([Top EXCEPT !.pc = "completed"])
    /\ UNCHANGED <<effect_id, injections, recoveries, process>>

\* ---------------------------------------------------- NetworkPartitionChaos
\* latencies = [100, 500, 1000, 2000, 5000]
latencies == <<100, 500, 1000, 2000, 5000>>

\* inject_partition: what it leaves in self.effect_id
inject_partition_effect_id_Early(old, o, id) == IF o = "id" THEN id ELSE None

inject_partition_effect_id(old, o, id) ==
    CASE o = "id" -> id
      [] o = "noid" -> None
      [] OTHER -> old

\* inject_partition: what it returns (a list has no .get: that raises)
inject_partition_result(o) == o \in {"id", "noid"}

\* inject_partition: one POST, the identifier of the response stored
inject_partition(o) ==
    /\ EndpointInject(o)
    /\ effect_id' = inject_partition_effect_id(effect_id, o, issued + 1)
    /\ nInjects' = nInjects + 1
    /\ lastInject' = [outcome |-> o, result |-> inject_partition_result(o),
                     second |-> "none"]

\* simulate_gradual_degradation, first half of an iteration:
\* if self.effect_id: self.recover()
GradualRemove ==
    /\ prog = "partition"
    /\ InFrame("main")
    /\ Top.pc = "remove"
    /\ effect_id # None
    /\ \E status \in DeleteOutcomes :
        /\ EndpointDelete(effect_id, status)
        /\ effect_id' = IF DeleteOk(status) THEN None ELSE effect_id
    /\ stack' = ReplaceTop([Top EXCEPT !.pc = "inject"])
    /\ UNCHANGED <<fault_ids, injections, recoveries, process>>

\* simulate_gradual_degradation, second half of an iteration:
\* self.inject_partition()
GradualInject ==
    /\ prog = "partition"
    /\ InFrame("main")
    /\ Top.pc = "inject" \/ (Top.pc = "remove" /\ effect_id = None)
    /\ \E o \in InjectOutcomes : inject_partition(o)
    /\ stack' = ReplaceTop([Top EXCEPT !.i = @ + 1, !.pc =
         IF Top.i = Len(latencies) THEN "degraded" ELSE "remove"])
    /\ UNCHANGED <<fault_ids, recoveries, process>>

\* -------------------------------- APIThrottlingChaos, ResourceExhaustionChaos
\* the endpoint's side of an injection of two POSTs, the second one sent only
\* if `sent`: each POST answered with an identifier creates a fault
EndpointInject2(o1, o2, sent) ==
    LET new == IF o1 = "id" THEN <<issued + 1>> ELSE <<>>
        new2 == IF sent /\ o2 = "id" THEN Append(new, issued + Len(new) + 1)
                                     ELSE new IN
    /\ issued' = issued + Len(new2)
    /\ active' = active \cup Range(new2)
    /\ returned' = returned \o new2
    /\ nDeletes' = nDeletes \o [k \in 1..Len(new2) |-> 0]
    /\ UNCHANGED deleted

\* inject_throttling: the response is an object; result.get("id") is appended
\* whatever it is, and a list (no .get) raises into `except Exception`
throttling_appends(ids, o, id) ==
    CASE o = "id" -> Append(ids, id)
      [] o = "noid" -> Append(ids, None)
      [] OTHER -> ids

\* inject_throttling sends the second POST when the first one was recorded
throttling_second_sent(o1) == o1 \in {"id", "noid"}

\* inject_throttling: what it returns
inject_throttling_result(o1, o2) ==
    throttling_second_sent(o1) /\ o2 \in {"id", "noid", "status"}

\* inject_throttling: what it leaves in self.fault_ids
inject_throttling_ids(ids, o1, o2, id1, id2) ==
    IF throttling_second_sent(o1)
    THEN throttling_appends(throttling_appends(ids, o1, id1), o2, id2)
    ELSE ids

\* inject_exhaustion: the response is a list; result[0].get("id") is appended
\* if the list is not empty
exhaustion_appends(ids, o, id) ==
    CASE o = "id" -> Append(ids, id)
      [] o = "noid" -> Append(ids, None)
      [] OTHER -> ids

\* inject_exhaustion sends the second POST when the first one returned 200
exhaustion_second_sent(o1) == o1 \in {"id", "noid", "empty"}

\* inject_exhaustion: what it returns
inject_exhaustion_result(o1, o2) ==
    exhaustion_second_sent(o1) /\ o2 \in {"id", "noid", "empty", "status"}

\* inject_exhaustion: what it leaves in self.fault_ids
inject_exhaustion_ids(ids, o1, o2, id1, id2) ==
    IF exhaustion_second_sent(o1)
    THEN exhaustion_appends(exhaustion_appends(ids, o1, id1), o2, id2)
    ELSE ids

\* the identifier the second POST is answered with
SecondId(o1) == IF o1 = "id" THEN issued + 2 ELSE issued + 1

\* main: if chaos.inject_throttling(): ... else: print the failure
InjectThrottling ==
    /\ prog = "throttling"
    /\ InFrame("main")
    /\ Top.pc = "inject"
    /\ \E o1, o2 \in InjectOutcomes :
        /\ ~throttling_second_sent(o1) => o2 = "status"
        /\ EndpointInject2(o1, o2, throttling_second_sent(o1))
        /\ fault_ids' = inject_throttling_ids(fault_ids, o1, o2, issued + 1,
                                              SecondId(o1))
        /\ nInjects' = nInjects + 1
        /\ lastInject' = [outcome |-> o1,
                          result |-> inject_throttling_result(o1, o2),
                          second |-> IF throttling_second_sent(o1) THEN o2
                                                                   ELSE "none"]
        /\ stack' = ReplaceTop([Top EXCEPT !.pc =
             IF inject_throttling_result(o1, o2) THEN "throttled"
                                                 ELSE "not_injected"])
    /\ UNCHANGED <<effect_id, recoveries, process>>

\* main: if chaos.inject_exhaustion(): ... else: print the failure;
\* inject_exhaustion returns False at once for a resource it has no
\* configuration for
InjectExhaustion ==
    /\ prog = "exhaustion"
    /\ InFrame("main")
    /\ Top.pc = "inject"
    /\ \E configured \in BOOLEAN : \E o1, o2 \in InjectOutcomes :
        /\ ~configured => o1 = "status"
        /\ ~(configured /\ exhaustion_second_sent(o1)) => o2 = "status"
        /\ IF configured
           THEN /\ EndpointInject2(o1, o2, exhaustion_second_sent(o1))
                /\ fault_ids' = inject_exhaustion_ids(fault_ids, o1, o2,
                                                      issued + 1, SecondId(o1))
                /\ lastInject' = [outcome |-> o1,
                                  result |-> inject_exhaustion_result(o1, o2),
                                  second |-> IF exhaustion_second_sent(o1)
                                             THEN o2 ELSE "none"]
                /\ stack' = ReplaceTop([Top EXCEPT !.pc =
                     IF inject_exhaustion_result(o1, o2) THEN "exhausted"
                                                         ELSE "not_injected"])
           ELSE /\ UNCHANGED <<endpoint, fault_ids>>
                /\ lastInject' = [outcome |-> "unconfigured", result |-> FALSE,
                                  second |-> "none"]
                /\ stack' = ReplaceTop([Top EXCEPT !.pc = "not_injected"])
        /\ nInjects' = nInjects + 1
    /\ UNCHANGED <<effect_id, recoveries, process>>

\* recover: DELETE every tracked fault, then self.fault_ids = []
ThrottlingRecover ==
    /\ prog = "throttling"
    /\ InFrame("main")
    /\ Top.pc = "throttled"
    /\ \E st \in [1..Len(fault_ids) -> DeleteOutcomes] :
        EndpointDeleteAll(fault_ids, st)
    /\ fault_ids' = <<>>
    /\ stack' = ReplaceTop([Top EXCEPT !.pc = "completed"])
    /\ UNCHANGED <<effect_id, injections, recoveries, process>>

\* effects at the endpoint that this process did not inject; their ids are
\* apart from the ones issued to this process
ForeignEffects == {100 + k : k \in 1..MaxForeign}

\* recover: the effects it sends a DELETE for, given self.effect_id and what
\* GET on the effects endpoint lists
recover_targets_Always(eid, listed) == listed \cup ({eid} \ {None})

recover_targets(eid, listed) == IF eid # None THEN {eid} ELSE listed

\* main, gradual mode: chaos.recover() after simulate_gradual_degradation.
\* With an effect_id it sends one DELETE and forgets the id on 200/204.
\* Without one it GETs the list of effects and, on 200, sends a DELETE for
\* each; an exception ends the loop, so any part of the list may have been
\* attempted, and any part of that removed
PartitionRecover ==
    /\ prog = "partition"
    /\ InFrame("main")
    /\ Top.pc = "degraded"
    /\ \E listed \in {active, {}} :
       \E attempted \in SUBSET recover_targets(effect_id, listed) :
       \E ok \in SUBSET attempted :
        /\ effect_id # None => attempted = recover_targets(effect_id, listed)
        /\ active' = active \ ok
        /\ deleted' = deleted \cup ok
        /\ nDeletes' = [id \in 1..Len(nDeletes) |->
                          nDeletes[id] + IF id \in attempted THEN 1 ELSE 0]
        /\ effect_id' = IF effect_id \in ok THEN None ELSE effect_id
        /\ UNCHANGED <<issued, returned>>
    /\ stack' = ReplaceTop([Top EXCEPT !.pc = "completed"])
    /\ UNCHANGED <<fault_ids, injections, recoveries, process>>

\* -------------------------------------------------------- ServiceOutageChaos
\* inject_fault: what it leaves in self.fault_id
inject_fault_id(old, o, id) ==
    CASE o = "id" -> id
      [] o = "noid" -> None
      [] OTHER -> old

\* inject_fault: what it returns
inject_fault_result(o) == o \in {"id", "empty", "noid"}

\* main: if chaos.inject_fault(): ... else: print the failure
OutageInject ==
    /\ prog = "outage"
    /\ InFrame("main")
    /\ Top.pc = "inject"
    /\ \E o \in InjectOutcomes :
        /\ EndpointInject(o)
        /\ script' = [script EXCEPT
                        !.fault_id = inject_fault_id(@, o, issued + 1)]
        /\ nInjects' = nInjects + 1
        /\ lastInject' = [outcome |-> o, result |-> inject_fault_result(o),
                          second |-> "none"]
        /\ stack' = ReplaceTop([Top EXCEPT !.pc =
             IF inject_fault_result(o) THEN "outage" ELSE "not_injected"])
    /\ UNCHANGED <<fault_ids, effect_id, recoveries, prog, nested, signalled,
                   exit_code, terminated>>

\* recover: without a fault_id, take the id of a listed fault of this service
\* and region, if list_faults yields one; then DELETE self.fault_id, if any.
\* self.fault_id is left as it is whatever the DELETE returns
OutageRecover ==
    /\ prog = "outage"
    /\ InFrame("main")
    /\ Top.pc \in {"outage", "recovered"}
    /\ script.recovers < MaxRecovers
    /\ \E found \in IF script.fault_id # None THEN {script.fault_id}
                                              ELSE active \cup {None} :
        /\ script' = [script EXCEPT !.fault_id = found, !.recovers = @ + 1]
        /\ IF found # None
           THEN \E status \in DeleteOutcomes :
                EndpointDeleteAll(<<found>>, [k \in 1..1 |-> status])
           ELSE UNCHANGED endpoint
    /\ stack' = ReplaceTop([Top EXCEPT !.pc = "recovered"])
    /\ UNCHANGED <<fault_ids, effect_id, injections, recoveries, prog, nested,
                   signalled, exit_code, terminated>>

\* ------------------------------------------- scripts without ChaosTestBase
\* the scenario scripts register no signal handler and no exit hook
\* exit status of a process ended by SIGINT (KeyboardInterrupt) or SIGTERM
KilledStatus == {1, 130, 143}

\* main returns: the process exits
ScriptEnd ==
    /\ prog \notin BaseProgs
    /\ InFrame("main")
    /\ Top.pc \in {"failed", "not_injected", "completed", "recovered"}
    /\ terminated' = TRUE
    /\ exit_code' = 0
    /\ stack' = <<>>
    /\ UNCHANGED <<fault_ids, effect_id, endpoint, injections, recoveries,
                   prog, nested, script, signalled>>

\* SIGINT or SIGTERM arrives while the script runs: the process ends there
Interrupt ==
    /\ prog \notin BaseProgs
    /\ InFrame("main")
    /\ signalled' = TRUE
    /\ terminated' = TRUE
    /\ exit_code' \in KilledStatus
    /\ stack' = <<>>
    /\ UNCHANGED <<fault_ids, effect_id, endpoint, injections, recoveries,
                   prog, nested, script>>

\* ------------------------------------------------- the regions' S3 objects
\* region_failure.py, latency_injection.py and main_site_failure.py act on
\* the objects <region>.html of the bucket.  script.objects is what the
\* bucket holds under each key: the "original" page, the "delayed" page, or
\* nothing ("absent"); script.backup_objects is the content a script keeps
\* in memory for a key ("none": no entry)
S3Regions == <<"us-east-1", "us-east-2">>

\* main: target is us-east-1, us-east-2 or both; one instance per region
Targets == {<<"us-east-1">>, <<"us-east-2">>, S3Regions}

S3Progs == {"region", "latency", "mainsite"}

\* return codes of an aws-cli command: 0, or a failure
S3Codes == {0, 1}

\* s3 cp s3://bucket/key - : an object that is not there cannot be downloaded
DownloadCodes(key) ==
    IF script.objects[key] = "absent" THEN {1} ELSE S3Codes

\* the objects after s3 rm (content "absent") or s3 cp file s3://bucket/key
\* returned code: the bucket changes exactly when the command succeeded
S3Put(key, content, code) ==
    IF code = 0 THEN [script.objects EXCEPT ![key] = content]
                ELSE script.objects

\* the instance after instance i of chaos_instances, or the step after the
\* injection loop
NextInstance(first, after) ==
    IF Top.i < Len(script.targets)
    THEN [Top EXCEPT !.pc = first, !.i = @ + 1]
    ELSE [Top EXCEPT !.pc = after]

\* ------------------------------------------------------- RegionFailureChaos
\* inject_failure: the object is deleted only if backup_object returned True
inject_failure_next_Regardless(backed_up) == "rm"

inject_failure_next(backed_up) == IF backed_up THEN "rm" ELSE "failed"

\* inject_failure up to the backup: backup_object keeps the downloaded
\* content exactly when the download returned 0
RegionBackup ==
    /\ prog = "region"
    /\ InFrame("main")
    /\ Top.pc = "backup"
    /\ LET key == script.targets[Top.i] IN
       \E code \in DownloadCodes(key) :
        /\ script' = [script EXCEPT
             !.backup_objects[key] = IF code = 0 THEN script.objects[key]
                                                 ELSE @,
             !.backup_failed = IF code = 0 THEN @ ELSE @ \cup {key},
             !.injected[key] = IF inject_failure_next(code = 0) = "rm"
                               THEN @ ELSE "False"]
        /\ stack' = ReplaceTop(
             IF inject_failure_next(code = 0) = "rm"
             THEN [Top EXCEPT !.pc = "rm"]
             ELSE NextInstance("backup", "monitor"))
    /\ UNCHANGED <<fault_ids, effect_id, endpoint, injections, recoveries,
                   prog, nested, signalled, exit_code, terminated>>

\* inject_failure: s3 rm of the object; True exactly when it returned 0
RegionRemove ==
    /\ prog = "region"
    /\ InFrame("main")
    /\ Top.pc = "rm"
    /\ LET key == script.targets[Top.i] IN
       \E code \in S3Codes :
        /\ script' = [script EXCEPT
             !.objects = S3Put(key, "absent", code),
             !.destroyed = @ \cup {key},
             !.injected[key] = IF code = 0 THEN "True" ELSE "False"]
    /\ stack' = ReplaceTop(NextInstance("backup", "monitor"))
    /\ UNCHANGED <<fault_ids, effect_id, endpoint, injections, recoveries,
                   prog, nested, signalled, exit_code, terminated>>

\* main after the monitoring loop: recover() of every instance uploads each
\* backed-up object again
RegionRecover ==
    /\ prog = "region"
    /\ InFrame("main")
    /\ Top.pc = "monitor"
    /\ LET backed == {key \in Range(script.targets) :
                         script.backup_objects[key] # "none"} IN
       \E ok \in SUBSET backed :
        script' = [script EXCEPT
          !.objects = [key \in DOMAIN @ |->
                         IF key \in ok THEN script.backup_objects[key]
                                       ELSE @[key]],
          !.restores = @ \cup backed]
    /\ stack' = ReplaceTop([Top EXCEPT !.pc = "completed"])
    /\ UNCHANGED <<fault_ids, effect_id, endpoint, injections, recoveries,
                   prog, nested, signalled, exit_code, terminated>>

\* ----------------------------------------------------- LatencyInjectionChaos
\* inject_latency up to the upload: a failed download returns False; the
\* downloaded content is kept in original_content otherwise
LatencyBackup ==
    /\ prog = "latency"
    /\ InFrame("main")
    /\ Top.pc = "backup"
    /\ LET key == script.targets[Top.i] IN
       \E code \in DownloadCodes(key) :
        /\ script' = [script EXCEPT
             !.backup_objects[key] = IF code = 0 THEN script.objects[key]
                                                 ELSE @,
             !.backup_failed = IF code = 0 THEN @ ELSE @ \cup {key},
             !.injected[key] = IF code = 0 THEN @ ELSE "False"]
        /\ stack' = ReplaceTop(
             IF code = 0 THEN [Top EXCEPT !.pc = "upload"]
                         ELSE NextInstance("backup", "monitor"))
    /\ UNCHANGED <<fault_ids, effect_id, endpoint, injections, recoveries,
                   prog, nested, signalled, exit_code, terminated>>

\* inject_latency: the delayed page is uploaded over the object; True
\* exactly when the upload returned 0
LatencyUpload ==
    /\ prog = "latency"
    /\ InFrame("main")
    /\ Top.pc = "upload"
    /\ LET key == script.targets[Top.i] IN
       \E code \in S3Codes :
        /\ script' = [script EXCEPT
             !.objects = S3Put(key, "delayed", code),
             !.destroyed = @ \cup {key},
             !.injected[key] = IF code = 0 THEN "True" ELSE "False"]
    /\ stack' = ReplaceTop(NextInstance("backup", "monitor"))
    /\ UNCHANGED <<fault_ids, effect_id, endpoint, injections, recoveries,
                   prog, nested, signalled, exit_code, terminated>>

\* main after the monitoring loop: recover() of every instance uploads each
\* entry of original_content again
LatencyRecover ==
    /\ prog = "latency"
    /\ InFrame("main")
    /\ Top.pc = "monitor"
    /\ LET backed == {key \in Range(script.targets) :
                         script.backup_objects[key] # "none"} IN
       \E ok \in SUBSET backed :
        script' = [script EXCEPT
          !.objects = [key \in DOMAIN @ |->
                         IF key \in ok THEN script.backup_objects[key]
                                       ELSE @[key]],
          !.restores = @ \cup backed]
    /\ stack' = ReplaceTop([Top EXCEPT !.pc = "completed"])
    /\ UNCHANGED <<fault_ids, effect_id, endpoint, injections, recoveries,
                   prog, nested, signalled, exit_code, terminated>>

\* ------------------------------------------------------- MainSiteFailureTest
Endpoints == {"main", "us-east-1", "us-east-2"}

\* check_all_endpoints: what curl observes of each endpoint, healthy or not.
\* A regional endpoint serves the region's object: it answers 200 only if
\* the object is there.  The main site is an object of its own
Observations ==
    {st \in [Endpoints -> BOOLEAN] :
        \A r \in Range(S3Regions) : st[r] => script.objects[r] # "absent"}

\* run_test: the verdict on the check made with both regions taken down
test_passed_RegionsOnly(st) == ~st["us-east-1"] /\ ~st["us-east-2"]

test_passed(st) == ~st["us-east-1"] /\ ~st["us-east-2"] /\ ~st["main"]

\* main: sys.exit(0) if run_test returned True, sys.exit(1) otherwise
exit_status(success) == IF success = "True" THEN 0 ELSE 1

\* run_test, phase 1: return False unless every endpoint is healthy
InitialCheck ==
    /\ prog = "mainsite"
    /\ InFrame("main")
    /\ Top.pc = "check"
    /\ Top.i = 0
    /\ \E st \in Observations :
        /\ script' = [script EXCEPT
             !.statuses = Append(@, st),
             !.result = IF \A e \in Endpoints : st[e] THEN @ ELSE "False"]
        /\ stack' = ReplaceTop(
             IF \A e \in Endpoints : st[e]
             THEN [Top EXCEPT !.pc = "backup", !.i = 1]
             ELSE [Top EXCEPT !.pc = "returned"])
    /\ UNCHANGED <<fault_ids, effect_id, endpoint, injections, recoveries,
                   prog, nested, signalled, exit_code, terminated>>

\* take_down_region up to the backup; when backup_object returns False so
\* does take_down_region, and run_test returns False
TakeDownBackup ==
    /\ prog = "mainsite"
    /\ InFrame("main")
    /\ Top.pc = "backup"
    /\ LET key == S3Regions[Top.i] IN
       \E code \in DownloadCodes(key) :
        /\ script' = [script EXCEPT
             !.backup_objects[key] = IF code = 0 THEN script.objects[key]
                                                 ELSE @,
             !.backup_failed = IF code = 0 THEN @ ELSE @ \cup {key},
             !.injected[key] = IF code = 0 THEN @ ELSE "False",
             !.result = IF code = 0 THEN @ ELSE "False"]
        /\ stack' = ReplaceTop([Top EXCEPT !.pc = IF code = 0 THEN "rm"
                                                             ELSE "returned"])
    /\ UNCHANGED <<fault_ids, effect_id, endpoint, injections, recoveries,
                   prog, nested, signalled, exit_code, terminated>>

\* take_down_region: s3 rm of the region's object; True exactly when it
\* returned 0, and run_test returns False otherwise
TakeDownRemove ==
    /\ prog = "mainsite"
    /\ InFrame("main")
    /\ Top.pc = "rm"
    /\ LET key == S3Regions[Top.i] IN
       \E code \in S3Codes :
        /\ script' = [script EXCEPT
             !.objects = S3Put(key, "absent", code),
             !.destroyed = @ \cup {key},
             !.injected[key] = IF code = 0 THEN "True" ELSE "False",
             !.result = IF code = 0 THEN @ ELSE "False"]
        /\ stack' = ReplaceTop([Top EXCEPT !.pc = IF code = 0 THEN "check"
                                                             ELSE "returned"])
    /\ UNCHANGED <<fault_ids, effect_id, endpoint, injections, recoveries,
                   prog, nested, signalled, exit_code, terminated>>

\* run_test, phase 2: return False if us-east-1 is still observed healthy
CheckAfterFirst ==
    /\ prog = "mainsite"
    /\ InFrame("main")
    /\ Top.pc = "check"
    /\ Top.i = 1
    /\ \E st \in Observations :
        /\ script' = [script EXCEPT
             !.statuses = Append(@, st),
             !.result = IF st["us-east-1"] THEN "False" ELSE @]
        /\ stack' = ReplaceTop(
             IF st["us-east-1"] THEN [Top EXCEPT !.pc = "returned"]
                                ELSE [Top EXCEPT !.pc = "backup", !.i = 2])
    /\ UNCHANGED <<fault_ids, effect_id, endpoint, injections, recoveries,
                   prog, nested, signalled, exit_code, terminated>>

\* run_test, phase 3: the verdict
CheckAfterSecond ==
    /\ prog = "mainsite"
    /\ InFrame("main")
    /\ Top.pc = "check"
    /\ Top.i = 2
    /\ \E st \in Observations :
        script' = [script EXCEPT
             !.statuses = Append(@, st),
             !.test_passed = IF test_passed(st) THEN "True" ELSE "False"]
    /\ stack' = ReplaceTop([Top EXCEPT !.pc = "restore"])
    /\ UNCHANGED <<fault_ids, effect_id, endpoint, injections, recoveries,
                   prog, nested, signalled, exit_code, terminated>>

\* run_test, phase 4: restore_region of both regions, each uploading the
\* region's backed-up object if there is one; then return test_passed
RestoreRegions ==
    /\ prog = "mainsite"
    /\ InFrame("main")
    /\ Top.pc = "restore"
    /\ LET backed == {key \in Range(S3Regions) :
                         script.backup_objects[key] # "none"} IN
       \E ok \in SUBSET backed :
        script' = [script EXCEPT
          !.objects = [key \in DOMAIN @ |->
                         IF key \in ok THEN script.backup_objects[key]
                                       ELSE @[key]],
          !.restores = @ \cup backed,
          !.result = script.test_passed]
    /\ stack' = ReplaceTop([Top EXCEPT !.pc = "returned"])
    /\ UNCHANGED <<fault_ids, effect_id, endpoint, injections, recoveries,
                   prog, nested, signalled, exit_code, terminated>>

\* main: exit with the status run_test's result selects
MainSiteExit ==
    /\ prog = "mainsite"
    /\ InFrame("main")
    /\ Top.pc = "returned"
    /\ terminated' = TRUE
    /\ exit_code' = exit_status(script.result)
    /\ stack' = <<>>
    /\ UNCHANGED <<fault_ids, effect_id, endpoint, injections, recoveries,
                   prog, nested, script, signalled>>

\* ------------------------------------------------------------ specification
Progs == {"base", "run", "cascade", "partition", "throttling", "exhaustion",
          "outage"} \cup S3Progs

Start(p) == CASE p = "cascade" -> [Frame("main", "phase1") EXCEPT !.i = 1]
              [] p = "partition" -> [Frame("main", "remove") EXCEPT !.i = 1]
              [] p \in {"throttling", "exhaustion", "outage"} ->
                    Frame("main", "inject")
              [] p = "run" -> Frame("main", "inject_chaos")
              [] p \in {"region", "latency"} ->
                    [Frame("main", "backup") EXCEPT !.i = 1]
              [] p = "mainsite" -> Frame("main", "check")
              [] OTHER -> Frame("main", "start")

Init ==
    /\ prog \in Progs
    /\ \E service \in InitialServices, targets \in Targets,
          objects \in [Range(S3Regions) -> {"original", "absent"}] :
        script = [initial_service |-> IF prog = "cascade" THEN service
                                                         ELSE "none",
                  todo |-> <<>>, todo3 |-> {}, calls |-> <<>>,
                  result |-> "none", fault_id |-> None, recovers |-> 0,
                  targets |-> IF prog \in {"region", "latency"}
                              THEN targets ELSE S3Regions,
                  objects |-> IF prog \in S3Progs THEN objects
                              ELSE [r \in Range(S3Regions) |-> "original"],
                  backup_objects |-> [r \in Range(S3Regions) |-> "none"],
                  backup_failed |-> {}, destroyed |-> {}, restores |-> {},
                  injected |-> [r \in Range(S3Regions) |-> "none"],
                  statuses |-> <<>>, test_passed |-> "none"]
    /\ stack = <<Start(prog)>>
    /\ fault_ids = <<>>
    /\ effect_id = None
    /\ active \in IF prog \in {"partition", "outage"}
                   THEN SUBSET ForeignEffects ELSE {{}}
    /\ issued = 0
    /\ returned = <<>>
    /\ deleted = {}
    /\ nDeletes = <<>>
    /\ nInjects = 0
    /\ lastInject = NoInject
    /\ passes = <<>>
    /\ lastPass = NoPass
    /\ signalled = FALSE
    /\ nested = 0
    /\ exit_code = 0
    /\ terminated = FALSE

Next ==
    \/ InjectChaos
    \/ SignalHandler
    \/ SignalExit
    \/ MainReturn
    \/ AtExit
    \/ Terminate
    \/ CleanupEnter
    \/ CleanupDelete
    \/ CleanupFallback
    \/ InjectPhase1
    \/ InjectPhase2
    \/ InjectPhase3
    \/ GradualRemove
    \/ GradualInject
    \/ PartitionRecover
    \/ RecoveryPhase1
    \/ RecoveryPhase2
    \/ RecoveryPhase3
    \/ CascadeRecover
    \/ InjectThrottling
    \/ InjectExhaustion
    \/ ThrottlingRecover
    \/ OutageInject
    \/ OutageRecover
    \/ RunInjectChaos
    \/ RunTestImpact
    \/ RunInput
    \/ RunRecover
    \/ RegionBackup
    \/ RegionRemove
    \/ RegionRecover
    \/ LatencyBackup
    \/ LatencyUpload
    \/ LatencyRecover
    \/ InitialCheck
    \/ TakeDownBackup
    \/ TakeDownRemove
    \/ CheckAfterFirst
    \/ CheckAfterSecond
    \/ RestoreRegions
    \/ MainSiteExit
    \/ ScriptEnd
    \/ Interrupt

Spec == Init /\ [][Next]_vars

\* a ChaosTestBase script on its own
BaseInit == Init /\ prog = "base"

BaseNext ==
    \/ InjectChaos
    \/ SignalHandler
    \/ SignalExit
    \/ MainReturn
    \/ AtExit
    \/ Terminate
    \/ CleanupEnter
    \/ CleanupDelete
    \/ CleanupFallback

\* the interpreter keeps executing: a pass, the handler's sys.exit and the
\* exit hooks each take their next step, every request being answered with
\* a status or an exception
Running ==
    \/ SignalExit
    \/ AtExit
    \/ Terminate
    \/ CleanupEnter
    \/ CleanupDelete
    \/ CleanupFallback

FairSpec == BaseInit /\ [][BaseNext]_vars /\ WF_vars(Running)

\* requests.delete and requests.post are called without a timeout: a request
\* the endpoint never answers keeps the pass waiting in the call.  Whether
\* the endpoint acted on a DELETE it did not answer is open
CleanupHang ==
    /\ InFrame("_cleanup")
    /\ Top.pc = "loop"
    /\ \/ /\ Top.i <= Len(fault_ids)
          /\ fault_ids[Top.i] # None
          /\ active' \in {active, active \ {fault_ids[Top.i]}}
       \/ /\ Top.i > Len(fault_ids)
          /\ NeedsClear(Top.cleaned, fault_ids)
          /\ active' \in {active, {}}
    /\ stack' = ReplaceTop([Top EXCEPT !.pc = "waiting"])
    /\ UNCHANGED <<fault_ids, effect_id, issued, returned, deleted, nDeletes,
                   injections, recoveries, process>>

HangNext == BaseNext \/ CleanupHang

HangSpec == BaseInit /\ [][HangNext]_vars /\ WF_vars(Running)

\* ------------------------------------- a signal while a pass is executing
\* a request of the pass on top of the stack is about to be in flight
RequestDue ==
    /\ Top.pc = "loop"
    /\ \/ Top.i <= Len(fault_ids) /\ fault_ids[Top.i] # None
       \/ Top.i > Len(fault_ids) /\ NeedsClear(Top.cleaned, fault_ids)

NoneInterrupted ==
    \A n \in 1..Len(stack) : stack[n].pc \notin {"in_try", "outside_try"}

\* SIGINT or SIGTERM arrives while _cleanup executes: the handler runs on top
\* of the interrupted pass, either inside one of its try blocks (a request is
\* in flight) or between them
SignalInPass ==
    /\ InFrame("_cleanup")
    /\ Top.pc \in {"enter", "loop"}
    /\ NoneInterrupted
    /\ nested < MaxNested
    /\ \E at \in {"in_try", "outside_try"} :
        /\ at = "in_try" => RequestDue
        /\ stack' = ReplaceTop([Top EXCEPT !.pc = at])
                      \o <<Frame("_signal_handler", "exit"),
                           Frame("_cleanup", "enter")>>
    /\ signalled' = TRUE
    /\ nested' = nested + 1
    /\ UNCHANGED <<fault_ids, effect_id, endpoint, injections, recoveries,
                   prog, script, exit_code, terminated>>

\* sys.exit(1) of a handler that interrupted the script
SignalExitFromScript ==
    /\ Len(stack) = 2
    /\ SignalExit

\* sys.exit(1) of a handler that interrupted a try block of _cleanup: the
\* bare except catches SystemExit.  In the loop that is `pass` and the next
\* id; around the bulk-clear the pass prints and returns.  Whether the
\* endpoint acted on the interrupted request is open
SignalExitInTry ==
    /\ InFrame("_signal_handler")
    /\ Len(stack) > 2
    /\ LET pass == stack[Len(stack) - 1]
           caller == stack[Len(stack) - 2]
           below == SubSeq(stack, 1, Len(stack) - 2) IN
       /\ pass.pc = "in_try"
       /\ IF pass.i <= Len(fault_ids)
          THEN /\ stack' = Append(below,
                     [pass EXCEPT !.pc = "loop", !.i = @ + 1,
                                  !.reqs = Append(@, Request("DELETE",
                                      fault_ids[pass.i], TransportError))])
               /\ \E status \in {200, TransportError} :
                     EndpointDelete(fault_ids[pass.i], status)
               /\ UNCHANGED recoveries
          ELSE /\ stack' = below
               /\ lastPass' = [trigger |-> caller.fn, ids |-> fault_ids,
                               reqs |-> Append(pass.reqs,
                                   Request("POST", None, TransportError)),
                               cleaned |-> pass.cleaned, injects |-> nInjects]
               /\ passes' = Append(passes, [trigger |-> caller.fn,
                                            requests |-> Len(pass.reqs) + 1])
               /\ active' \in {active, {}}
               /\ UNCHANGED <<issued, returned, deleted, nDeletes>>
    /\ UNCHANGED <<fault_ids, effect_id, injections, process>>

\* sys.exit(1) of a handler that interrupted _cleanup outside its try blocks:
\* SystemExit leaves the pass.  Out of the handler's pass it unwinds the
\* handler and the script and the exit hooks follow; out of the exit hook's
\* pass it ends the hook, and whether it changes the exit status is left open
SignalExitOutside ==
    /\ InFrame("_signal_handler")
    /\ Len(stack) > 2
    /\ stack[Len(stack) - 1].pc = "outside_try"
    /\ IF stack[1].fn = "atexit"
       THEN /\ stack' = <<Frame("atexit", "done")>>
            /\ exit_code' \in {exit_code, 1}
       ELSE /\ stack' = <<Frame("atexit", "start")>>
            /\ exit_code' = 1
    /\ UNCHANGED <<fault_ids, effect_id, endpoint, injections, recoveries,
                   prog, nested, script, signalled, terminated>>

\* the script tracks at most MaxTracked faults
ReentrantInject ==
    /\ Len(fault_ids) < MaxTracked
    /\ nInjects < MaxTracked
    /\ InjectChaos

ReentrantNext ==
    \/ ReentrantInject
    \/ SignalHandler
    \/ SignalExitFromScript
    \/ MainReturn
    \/ AtExit
    \/ Terminate
    \/ CleanupEnter
    \/ CleanupDelete
    \/ CleanupFallback
    \/ SignalInPass
    \/ SignalExitInTry
    \/ SignalExitOutside

ReentrantSpec == BaseInit /\ [][ReentrantNext]_vars

\* ------------------------------------------------------------------ claims
Deletes(reqs) == SelectSeq(reqs, LAMBDA r : r.verb = "DELETE")

Clears(reqs) == SelectSeq(reqs, LAMBDA r : r.verb = "POST")

Exiting == terminated \/ (stack # <<>> /\ stack[1].fn = "atexit")

PassFinishes == Len(passes') > Len(passes)

C2_SinglePass ==
    (terminated /\ signalled /\ fault_ids # <<>>) =>
        /\ Cardinality({k \in 1..Len(passes) : passes[k].requests > 0}) = 1
        /\ \A id \in 1..issued : nDeletes[id] <= 1

\* C3: a recovery pass over a non-empty list sends exactly one DELETE to
\* every tracked id, in list order and without retry; if one of them fails
\* (status other than 200/204, or an exception) the pass then sends exactly
\* one bulk-clear POST, after all the deletions.
C3_OneDeletePerId ==
    /\ lastPass.ids # <<>> =>
          LET d == Deletes(lastPass.reqs)
              c == Clears(lastPass.reqs) IN
          /\ Len(d) = Len(lastPass.ids)
          /\ \A k \in 1..Len(d) : d[k].id = lastPass.ids[k]
          /\ \A id \in Range(lastPass.ids) :
                Cardinality({k \in 1..Len(d) : d[k].id = id}) = 1
          /\ (\E k \in 1..Len(d) : d[k].status \notin {200, 204}) =>
                (Len(c) = 1 /\ lastPass.reqs = d \o c)
    /\ \A n \in 1..Len(stack) :
          stack[n].fn = "_cleanup" =>
             /\ Clears(stack[n].reqs) = <<>>
             /\ \A id \in Range(fault_ids) :
                   Cardinality({k \in 1..Len(stack[n].reqs) :
                                   stack[n].reqs[k].id = id}) <= 1

C3_Witness ==
    /\ Len(lastPass.ids) = 2
    /\ Len(lastPass.reqs) = 3
    /\ lastPass.reqs[1].status = 200
    /\ lastPass.reqs[2].status = 404
    /\ lastPass.reqs[3].verb = "POST"

\* C4: if every DELETE of a recovery pass returns 200 or 204, the pass sends
\* no bulk-clear POST.
C4_NoClearWhenAllDeleted ==
    ( /\ lastPass.ids # <<>>
      /\ \A k \in 1..Len(lastPass.reqs) :
            lastPass.reqs[k].verb = "DELETE" =>
                lastPass.reqs[k].status \in {200, 204} )
    => Clears(lastPass.reqs) = <<>>

C4_Witness ==
    /\ Len(lastPass.ids) = 2
    /\ lastPass.reqs = <<Request("DELETE", 1, 200), Request("DELETE", 2, 204)>>

\* C5: every recovery pass ends with the tracked list empty.
C5_EndsEmpty == [][PassFinishes => fault_ids' = <<>>]_vars

\* C6: of two recovery passes in a row (no injection in between), the second
\* ends with the tracked list empty and sends no DELETE.
C6_SecondPassIdle ==
    [][(PassFinishes /\ lastPass.trigger # "none"
            /\ lastPass.injects = lastPass'.injects)
        => (fault_ids' = <<>> /\ Deletes(lastPass'.reqs) = <<>>)]_vars

\* C7: a recovery pass that starts with an empty tracked list sends no
\* request (no DELETE, no bulk-clear), leaves the list empty and the endpoint
\* untouched, and counts zero removals.
C7_EmptyIsNoOp ==
    [][(PassFinishes /\ fault_ids = <<>>)
        => /\ lastPass'.reqs = <<>>
           /\ lastPass'.cleaned = 0
           /\ fault_ids' = <<>>
           /\ UNCHANGED endpoint]_vars

C7_Witness ==
    /\ lastPass.trigger = "atexit"
    /\ lastPass.ids = <<>>
    /\ terminated

\* C8: every id in the tracked list was returned by a successful injection
\* and has not been the target of a successful deletion.
C8_TrackedAreLive ==
    prog = "base" =>
        \A k \in 1..Len(fault_ids) :
            /\ fault_ids[k] \in Range(returned)
            /\ fault_ids[k] \notin deleted

\* C9: while every injection call so far was successful (the endpoint
\* answered it with an identifier) and no recovery has run, the tracked list
\* is exactly the returned identifiers in injection order: as many entries as
\* injections, every returned id a member.
C9_InjectionsTracked ==
    ( /\ prog \in {"base", "cascade"}
      /\ nInjects = Len(returned)
      /\ stack # <<>>
      /\ stack[1].fn = "main"
      /\ stack[1].pc \in {"start", "phase1", "phase2", "phase3", "injected"} )
    => /\ fault_ids = returned
       /\ Len(fault_ids) = nInjects

C9_Witness ==
    prog = "base" /\ nInjects = 2 /\ fault_ids = <<1, 2>> /\ InFrame("main")

\* C10: an injection whose POST raises, or returns a non-success status,
\* reports failure and leaves fault_ids and effect_id as they were.
C10_FailedInjectRecordsNothing ==
    [][(nInjects' = nInjects + 1
            /\ lastInject'.outcome \in {"status", "exception"})
        => /\ lastInject'.result = FALSE
           /\ fault_ids' = fault_ids
           /\ effect_id' = effect_id]_vars

C10_Witness ==
    /\ prog = "partition"
    /\ lastInject.outcome \in {"status", "exception"}
    /\ effect_id # None

\* C11: whenever a two-request injection (inject_throttling,
\* inject_exhaustion) returns False, it has recorded no fault id: the tracked
\* list is as it was before the call, also when the first POST succeeded and
\* the second one raised.
C11_FalseRecordsNothing ==
    [][(prog \in {"throttling", "exhaustion"} /\ nInjects' = nInjects + 1
            /\ lastInject'.result = FALSE)
        => fault_ids' = fault_ids]_vars

\* C12: an injection whose POST returns a success status but no identifier
\* (an empty list, or an entry without "id") reports failure and adds no
\* entry, and in particular no None, to the tracked list.
C12_MissingIdIsFailure ==
    [][(prog \in {"cascade", "throttling"} /\ nInjects' = nInjects + 1
            /\ lastInject'.outcome \in {"empty", "noid"})
        => /\ lastInject'.result = FALSE
           /\ fault_ids' = fault_ids
           /\ None \notin Range(fault_ids')]_vars

\* C13: a targeted deletion (_remove_fault, called by
\* simulate_recovery_sequence and recover) succeeds exactly when its DELETE
\* returned 200 or 204; once the caller is done with it, an id whose deletion
\* succeeded is no longer tracked and an id whose deletion failed still is.
C13_FailedRemovalStaysTracked ==
    [][\A id \in 1..issued :
          (prog = "cascade" /\ issued' = issued
                /\ nDeletes'[id] > nDeletes[id])
          => /\ \A status \in DeleteOutcomes :
                   remove_fault(status) <=> status \in {200, 204}
             /\ id \in Range(fault_ids') <=> id \in active']_vars

\* C14: when the process of a ChaosTestBase script exits normally while the
\* manager still tracks a fault, a recovery pass over all the tracked ids,
\* started by the exit hook, has run by the time the process terminates.
C14_ExitHookRecovers ==
    (prog \in BaseProgs /\ terminated /\ ~signalled /\ fault_ids # <<>>) =>
        /\ lastPass.trigger = "atexit"
        /\ lastPass.ids = fault_ids
        /\ \A id \in Range(fault_ids) :
              \E k \in 1..Len(lastPass.reqs) :
                  /\ lastPass.reqs[k].verb = "DELETE"
                  /\ lastPass.reqs[k].id = id

C14_Witness ==
    /\ terminated
    /\ ~signalled
    /\ exit_code = 0
    /\ lastPass.trigger = "atexit"
    /\ Len(lastPass.ids) = 2
    /\ Len(Deletes(lastPass.reqs)) = 2

\* C15: a recovery pass never propagates an exception: whatever the DELETEs
\* and the bulk-clear POST come back with (success status, failure status,
\* exception), each step of _cleanup either stays in the pass or returns to
\* the caller, which goes on from where it called; and every pass that
\* starts is followed by the end of the process.
C15_CleanupReturns ==
    /\ [][InFrame("_cleanup")
            => \/ /\ Len(stack') = Len(stack)
                  /\ stack'[Len(stack')].fn = "_cleanup"
                  /\ SubSeq(stack', 1, Len(stack) - 1) = Pop
               \/ /\ PassFinishes
                  /\ stack' = Pop]_vars
    /\ (InFrame("_cleanup") ~> terminated)

C15_Witness ==
    /\ terminated
    /\ lastPass.reqs = <<Request("DELETE", 1, TransportError),
                         Request("DELETE", 2, 404),
                         Request("POST", None, TransportError)>>

\* C16: a recovery pass terminates even when the endpoint never answers: a
\* DELETE or bulk-clear call left without an answer is given up after a
\* bounded wait and the pass goes on to its end.
C16_HungCallAbandoned ==
    (InFrame("_cleanup") /\ Top.pc = "waiting") ~> ~InFrame("_cleanup")

\* C17: a termination signal delivered while a recovery pass is executing
\* does not cancel the cleanup: by the end of the process every tracked id
\* has received a deletion attempt, and the exit status is non-zero.
C17_SignalInPassStillExitsNonZero ==
    (terminated /\ nested > 0) =>
        /\ \A id \in Range(fault_ids) : nDeletes[id] >= 1
        /\ exit_code # 0

\* C18: after a recovery pass has run to its end, a fault of its list can
\* still be active at the endpoint only if its own DELETE failed and the
\* bulk-clear POST failed too; if every DELETE succeeded, or the bulk-clear
\* succeeded, none of them is active.
C18_ActiveOnlyAfterDoubleFailure ==
    lastPass.trigger # "none" =>
        LET d == Deletes(lastPass.reqs)
            c == Clears(lastPass.reqs) IN
        /\ \A id \in active \cap Range(lastPass.ids) :
              /\ \E k \in 1..Len(d) :
                    d[k].id = id /\ d[k].status \notin {200, 204}
              /\ \E k \in 1..Len(c) : c[k].status # 200
        /\ ( \/ \A k \in 1..Len(d) : d[k].status \in {200, 204}
             \/ \E k \in 1..Len(c) : c[k].status = 200 )
           => active \cap Range(lastPass.ids) = {}

C18_Witness ==
    /\ terminated
    /\ lastPass.reqs = <<Request("DELETE", 1, 200),
                         Request("DELETE", 2, 404),
                         Request("POST", None, 500)>>
    /\ active = {2}

\* C19: in api_throttling.py and cascade_failure.py every fault id that an
\* injection recorded has received a deletion attempt by the time the
\* process has terminated, also when a termination signal arrived between
\* the injection and the explicit recover.
C19_RecordedIdsGetDelete ==
    (terminated /\ prog \in {"throttling", "cascade"}) =>
        \A id \in Range(returned) : nDeletes[id] >= 1

\* C20: run calls inject_chaos, test_impact and recover in that order, each
\* at most once; when inject_chaos reports failure it calls neither
\* test_impact nor recover and returns False; it returns True only after it
\* has called recover.
C20_RunOrder ==
    prog = "run" =>
        /\ \E n \in 0..3 :
              script.calls = SubSeq(<<"inject_chaos", "test_impact",
                                     "recover">>, 1, n)
        /\ (nInjects = 1 /\ ~lastInject.result) =>
              /\ script.calls = <<"inject_chaos">>
              /\ script.result = "False"
        /\ script.result = "False" => ~lastInject.result
        /\ script.result = "True" =>
              script.calls = <<"inject_chaos", "test_impact", "recover">>

C20_Witness ==
    /\ prog = "run"
    /\ terminated
    /\ script.result = "True"
    /\ script.calls = <<"inject_chaos", "test_impact", "recover">>

\* C21: whatever number of fault ids is tracked and whatever the DELETEs
\* come back with, simulate_recovery_sequence sends exactly one DELETE for
\* every tracked id, the first-injected one last (phases 1 and 2 leave the
\* head of the list alone), and leaves fault_ids empty; the recover() that
\* follows sends no DELETE.
C21_RecoverySequenceCoversAll ==
    /\ []((prog = "cascade" /\ InFrame("main")
              /\ Top.pc \in {"cleanup", "completed"})
          => /\ fault_ids = <<>>
             /\ \A id \in Range(returned) : nDeletes[id] = 1)
    /\ [][(prog = "cascade" /\ InFrame("main")
              /\ Top.pc \in {"injected", "recovery2"} /\ fault_ids # <<>>)
          => /\ fault_ids' # <<>>
             /\ fault_ids'[1] = fault_ids[1]
             /\ issued' = issued
             /\ \A id \in 1..issued :
                   /\ id = fault_ids[1] => nDeletes'[id] = 0
                   /\ nDeletes'[id] <= 1]_vars

C21_Witness ==
    /\ prog = "cascade"
    /\ InFrame("main")
    /\ Top.pc = "completed"
    /\ Len(returned) = 5
    /\ active = {1}

\* C22: inject_cascade injects in phase order: the initial service, then
\* each direct dependency, then each second-level dependency.  If the
\* initial injection reports failure it returns False with nothing further
\* attempted and fault_ids empty; otherwise every dependent injection is
\* attempted, whatever the earlier ones reported, and it returns True.
C22_CascadePhases ==
    (prog = "cascade" /\ InFrame("main")) =>
        LET deps == service_dependencies(script.initial_service)
            second == second_level_deps(deps) IN
        /\ Top.pc = "phase1" => nInjects = 0
        /\ Top.pc = "failed" =>
              /\ nInjects = 1
              /\ ~lastInject.result
              /\ fault_ids = <<>>
        /\ Top.pc = "phase2" =>
              /\ script.todo # <<>>
              /\ nInjects = 1 + Len(deps) - Len(script.todo)
        /\ Top.pc = "phase3" =>
              /\ script.todo3 # {}
              /\ nInjects = 1 + Len(deps) + Cardinality(second)
                                - Cardinality(script.todo3)
        /\ Top.pc = "injected" =>
              nInjects = 1 + Len(deps) + Cardinality(second)
        /\ (nInjects = 1 /\ lastInject.result) => Top.pc # "failed"

C22_Witness ==
    /\ prog = "cascade"
    /\ InFrame("main")
    /\ Top.pc = "injected"
    /\ script.initial_service = "s3"
    /\ nInjects = 5
    /\ fault_ids = <<1>>

\* C23: during simulate_gradual_degradation a new latency effect is injected
\* only after the previous one was successfully removed: effect_id is never
\* overwritten while its effect is still active, and at most one effect of
\* this instance is active at any time.
C23_OneEffectAtATime ==
    /\ [](prog = "partition" => Cardinality(active \cap (1..issued)) <= 1)
    /\ [][(prog = "partition" /\ effect_id # None /\ effect_id' # effect_id)
            => effect_id \notin active']_vars

C25_NoDeleteAfterSuccess ==
    [][\A id \in 1..issued :
          (prog = "outage" /\ id \in deleted /\ issued' = issued)
          => nDeletes'[id] = nDeletes[id]]_vars

\* C26: in region_failure, main_site_failure and latency_injection the
\* destructive step on a region's object (its deletion, or its overwriting
\* with the delayed page) is issued only when the object's original content
\* is already held in memory, and a key whose backup download failed sees no
\* destructive step and has its injection report False
C26_BackupBeforeDestroy ==
    /\ [][\A key \in Range(S3Regions) :
            \/ /\ key \in script'.destroyed <=> key \in script.destroyed
               /\ \/ script'.objects[key] = script.objects[key]
                  \/ script'.objects[key] = script.backup_objects[key]
            \/ script.backup_objects[key] = "original"]_vars
    /\ [](\A key \in script.backup_failed :
            /\ key \notin script.destroyed
            /\ script.backup_objects[key] = "none"
            /\ script.injected[key] = "False")

\* both cases in one run of region_failure: the backup of us-east-1 failed,
\* us-east-2 was backed up and then deleted
C26_Witness ==
    /\ prog = "region"
    /\ script.backup_failed = {"us-east-1"}
    /\ script.injected["us-east-1"] = "False"
    /\ script.destroyed = {"us-east-2"}
    /\ script.backup_objects["us-east-2"] = "original"
    /\ script.objects["us-east-2"] = "absent"
    /\ script.injected["us-east-2"] = "True"

\* C27: on every return path of MainSiteFailureTest.run_test, each region
\* whose take-down succeeded has had restore_region attempt its upload
\* before run_test returns
C27_RestoreOnEveryReturn ==
    (prog = "mainsite" /\ script.result # "none")
        => \A key \in Range(S3Regions) :
            script.injected[key] = "True" => key \in script.restores

====
